---- MODULE Spec2Model ----
(***************************************************************************)
(* pshs -- pretty small http server.  Model of main() and term_handler()   *)
(* of src/main.cxx: command-line parsing, resource acquisition, route      *)
(* registration, port selection, bind, announcement, signal watchers,      *)
(* the event loop and the release of the automatic objects on return.      *)
(*                                                                         *)
(* Strings that the code indexes (option arguments, file operands, long    *)
(* option names) are sequences of one-character strings.                   *)
(***************************************************************************)
EXTENDS Integers, Sequences, FiniteSets, TLC

(***************************************************************************)
(* Bounds of the model.                                                    *)
(***************************************************************************)
MaxOpts == 2        \* option elements on a command line
MaxFiles == 2       \* file operands on a command line
MaxRandom == 32000  \* outcomes 0..MaxRandom of random() that are enumerated
MaxSigFail == 1     \* evsignal_new() failures injected in one run
MaxSignals == 2     \* signals raised in one run
MaxRequests == 1    \* requests handled in one run

(***************************************************************************)
(* Program and platform constants.                                         *)
(***************************************************************************)
LIMB == 65536             \* integers wider than TLC's are kept in 16-bit limbs
RANDOM_MAX == 2147483647  \* random() returns a value in 0..2^31-1
PORT_LIMIT == 65535       \* 0xffff in the port check
RANDOM_MOD == 31743       \* 0x7bff
RANDOM_BASE == 1024       \* 0x400
NSIGS == 5                \* sigs.size()

NoArg == <<"<none>">>     \* optarg of an element that carries no argument
NullStr == "<null>"       \* a null char pointer

(***************************************************************************)
(* Characters.                                                             *)
(***************************************************************************)
DecDigits == {"0", "1", "2", "3", "4", "5", "6", "7", "8", "9"}
HexDigits == DecDigits \cup {"a", "b", "c", "d", "e", "f"}

DigitVal(c) ==
    CASE c = "0" -> 0 [] c = "1" -> 1 [] c = "2" -> 2 [] c = "3" -> 3
      [] c = "4" -> 4 [] c = "5" -> 5 [] c = "6" -> 6 [] c = "7" -> 7
      [] c = "8" -> 8 [] c = "9" -> 9 [] c = "a" -> 10 [] c = "b" -> 11
      [] c = "c" -> 12 [] c = "d" -> 13 [] c = "e" -> 14 [] c = "f" -> 15
      [] OTHER -> 99

IsDigitIn(c, base) == c \in HexDigits /\ DigitVal(c) < base

(***************************************************************************)
(* strtol(nptr, &endptr, 0).  The magnitude is accumulated in 16-bit limbs *)
(* (least significant first), bits \div 16 of them for a long of `bits'    *)
(* bits; a carry out of the top limb is recorded as overflow.              *)
(***************************************************************************)
ZeroLimbs(bits) == [k \in 1..(bits \div 16) |-> 0]

RECURSIVE MulAddFrom(_, _, _, _)
MulAddFrom(limbs, k, base, carry) ==
    IF k > Len(limbs)
    THEN [limbs |-> limbs, carry |-> carry]
    ELSE LET t == limbs[k] * base + carry
         IN  MulAddFrom([limbs EXCEPT ![k] = t % LIMB], k + 1, base, t \div LIMB)

\* the digits of s[from..] in `base', accumulated into acc
RECURSIVE ScanDigits(_, _, _, _)
ScanDigits(s, from, base, acc) ==
    IF from > Len(s) \/ ~IsDigitIn(s[from], base)
    THEN [limbs |-> acc.limbs, over |-> acc.over, end |-> from]
    ELSE LET r == MulAddFrom(acc.limbs, 1, base, DigitVal(s[from]))
         IN  ScanDigits(s, from + 1, base,
                        [limbs |-> r.limbs, over |-> acc.over \/ r.carry # 0])

RECURSIVE SkipSpace(_, _)
SkipSpace(s, from) ==
    IF from <= Len(s) /\ s[from] = " " THEN SkipSpace(s, from + 1) ELSE from

IsZeroFrom(limbs, k) == \A j \in k..Len(limbs) : limbs[j] = 0

\* two's complement of a limb vector
RECURSIVE NegFrom(_, _, _)
NegFrom(limbs, k, carry) ==
    IF k > Len(limbs)
    THEN limbs
    ELSE LET t == (LIMB - 1 - limbs[k]) + carry
         IN  NegFrom([limbs EXCEPT ![k] = t % LIMB], k + 1, t \div LIMB)

LongMax(bits) == [k \in 1..(bits \div 16) |-> IF k = bits \div 16 THEN 32767 ELSE 65535]
LongMin(bits) == [k \in 1..(bits \div 16) |-> IF k = bits \div 16 THEN 32768 ELSE 0]

\* result: the long as a two's-complement limb vector, and the index in s
\* of the first character that was not consumed (Len(s) + 1: the final NUL)
Strtol(s, bits) ==
    LET n     == bits \div 16
        p0    == SkipSpace(s, 1)
        neg   == p0 <= Len(s) /\ s[p0] = "-"
        p1    == IF p0 <= Len(s) /\ s[p0] \in {"-", "+"} THEN p0 + 1 ELSE p0
        isHex == /\ p1 + 2 <= Len(s)
                 /\ s[p1] = "0" /\ s[p1 + 1] = "x"
                 /\ IsDigitIn(s[p1 + 2], 16)
        base  == IF isHex THEN 16
                 ELSE IF p1 <= Len(s) /\ s[p1] = "0" THEN 8 ELSE 10
        p2    == IF isHex THEN p1 + 2 ELSE p1
        d     == ScanDigits(s, p2, base, [limbs |-> ZeroLimbs(bits), over |-> FALSE])
        top   == d.limbs[n]
        posOver == d.over \/ top >= 32768
        negOver == d.over \/ top > 32768
                   \/ (top = 32768 /\ ~IsZeroFrom([d.limbs EXCEPT ![n] = 0], 1))
    IN  IF d.end = p2
        THEN [val |-> ZeroLimbs(bits), end |-> 1]          \* no conversion
        ELSE IF neg
             THEN [val |-> IF negOver THEN LongMin(bits)
                           ELSE NegFrom(d.limbs, 1, 1),
                   end |-> d.end]
             ELSE [val |-> IF posOver THEN LongMax(bits) ELSE d.limbs,
                   end |-> d.end]

\* conversion of a long to unsigned int: the low 32 bits, as <<low, high>>
ToUnsigned(val) == <<val[1], val[2]>>

\* port = strtol(optarg, &tmp, 0); if (*tmp || !port || port >= 0xffff)
PortRejected(optarg, bits) ==
    LET r == Strtol(optarg, bits)
        u == ToUnsigned(r.val)
    IN  \/ r.end <= Len(optarg)
        \/ (u[1] = 0 /\ u[2] = 0)
        \/ (u[2] > 0 \/ u[1] >= PORT_LIMIT)

\* the value stored in port when the check passes (then it is below 0xffff)
PortParsed(optarg, bits) == ToUnsigned(Strtol(optarg, bits).val)[1]


(***************************************************************************)
(* getopt_long(argc, argv, "hVb:p:P:sU", opts, NULL).                      *)
(* An option element of the command line is                                *)
(*   [long |-> BOOLEAN, name |-> characters, arg |-> characters or NoArg]. *)
(***************************************************************************)
Chr_help    == <<"h", "e", "l", "p">>
Chr_version == <<"v", "e", "r", "s", "i", "o", "n">>
Chr_bind    == <<"b", "i", "n", "d">>
Chr_port    == <<"p", "o", "r", "t">>
Chr_ssl     == <<"s", "s", "l">>
Chr_noupnp  == <<"n", "o", "-", "u", "p", "n", "p">>
Chr_prefix  == <<"p", "r", "e", "f", "i", "x">>
Chr_bogus   == <<"b", "o", "g", "u", "s">>

\* const struct option opts[] (without the terminating entry)
opts ==
    << [name |-> Chr_help,    has_arg |-> FALSE, val |-> "h"],
       [name |-> Chr_version, has_arg |-> FALSE, val |-> "V"],
       [name |-> Chr_bind,    has_arg |-> TRUE,  val |-> "b"],
       [name |-> Chr_port,    has_arg |-> TRUE,  val |-> "p"],
       [name |-> Chr_ssl,     has_arg |-> FALSE, val |-> "s"],
       [name |-> Chr_noupnp,  has_arg |-> FALSE, val |-> "U"] >>

\* the option string "hVb:p:P:sU"
optstring ==
    << [name |-> "h", has_arg |-> FALSE], [name |-> "V", has_arg |-> FALSE],
       [name |-> "b", has_arg |-> TRUE],  [name |-> "p", has_arg |-> TRUE],
       [name |-> "P", has_arg |-> TRUE],  [name |-> "s", has_arg |-> FALSE],
       [name |-> "U", has_arg |-> FALSE] >>

IsPrefixOf(a, b) == Len(a) <= Len(b) /\ SubSeq(b, 1, Len(a)) = a

\* the value getopt_long returns for one option element, and optarg
GetoptLong(e) ==
    LET unknown == [opt |-> "?", optarg |-> NoArg]
        take(has_arg, val) ==
            IF has_arg = (e.arg # NoArg)
            THEN [opt |-> val, optarg |-> e.arg]
            ELSE unknown
    IN  IF e.long
        THEN LET exact  == {k \in 1..Len(opts) : opts[k].name = e.name}
                 abbrev == {k \in 1..Len(opts) : IsPrefixOf(e.name, opts[k].name)}
                 hit    == IF exact # {} THEN exact ELSE abbrev
             IN  IF Cardinality(hit) = 1
                 THEN LET k == CHOOSE k \in hit : TRUE
                      IN  take(opts[k].has_arg, opts[k].val)
                 ELSE unknown
        ELSE LET hit == {k \in 1..Len(optstring) : <<optstring[k].name>> = e.name}
             IN  IF hit # {}
                 THEN LET k == CHOOSE k \in hit : TRUE
                      IN  take(optstring[k].has_arg, optstring[k].name)
                 ELSE unknown

RECURSIVE Join(_)
Join(cs) == IF cs = <<>> THEN "" ELSE Head(cs) \o Join(Tail(cs))

(***************************************************************************)
(* The state of the process.                                               *)
(***************************************************************************)
VARIABLES
    pc,         \* position of main()
    longBits,   \* width of long in this build (ILP32 or LP64)
    args,       \* the option elements of argv, in command-line order
    optpos,     \* index in args of the element getopt_long returns next
    files,      \* argv[optind .. argc-1]: the file operands
    prefix, bindip, port, ssl, upnp,      \* the configuration locals
    cb_data,    \* struct callback_data
    scope,      \* automatic objects with a destructor, in declaration order
    evb,        \* the unique_ptr evb holds an event_base
    http,       \* the unique_ptr http holds an evhttp
    ssl_mod,    \* the SSLMod object holds a TLS context
    acquired,   \* per resource: how many times it was acquired
    released,   \* per resource: how many times it was released
    relOrder,   \* the resources in the order of their release
    indexRoute, \* path of the evhttp_set_cb() route
    gencb,      \* the generic callback is set
    allowed,    \* the request methods the listener accepts
    listening,  \* evhttp_bind_socket() succeeded
    bindCalls,  \* the (address, port) pairs given to evhttp_bind_socket()
    extip,      \* ExternalIP::addr
    out,        \* lines written to stderr / stdout
    qr,         \* texts given to print_qrcode()
    sigevents,  \* per index of sigs: the unique_ptr holds an event
    armed,      \* indexes of sigs whose event was added to the loop
    idx,        \* the loop variable i of the signal-handler loop
    sigFails,   \* evsignal_new() failures so far
    nullAdds,   \* event_add() calls made with a null event
    pending,    \* signals raised and not yet dispatched to a callback
    raised,     \* number of signals raised so far
    handled,    \* the signals whose term_handler ran, in order
    loopbreaks, \* number of event_base_loopbreak() calls
    served,     \* the requests the listener handled, with the callback run
    exitCode    \* the return value of main(); -1 before it returns

vars == << pc, longBits, args, optpos, files, prefix, bindip, port, ssl, upnp,
           cb_data, scope, evb, http, ssl_mod, acquired, released, relOrder,
           indexRoute, gencb, allowed, listening, bindCalls, extip, out, qr,
           sigevents, armed, idx, sigFails, nullAdds,
           pending, raised, handled, loopbreaks, served, exitCode >>

envVars   == << longBits, args >>
confVars  == << prefix, bindip, port, ssl, upnp >>
resVars   == << scope, evb, http, ssl_mod, acquired, released, relOrder >>
httpVars  == << indexRoute, gencb, allowed, listening, bindCalls >>
annVars   == << extip, qr >>
sigVars   == << sigevents, armed, idx, sigFails, nullAdds >>
loopVars  == << pending, raised, handled, loopbreaks, served >>

sigs == << "SIGINT", "SIGTERM", "SIGHUP", "SIGUSR1", "SIGUSR2" >>
Resources == {"evb", "http", "tls"} \cup {sigs[k] : k \in 1..NSIGS}


(***************************************************************************)
(* Command lines.                                                          *)
(***************************************************************************)
Short(c, a) == [long |-> FALSE, name |-> <<c>>, arg |-> a]
Long(n, a)  == [long |-> TRUE,  name |-> n,     arg |-> a]

Chr_ip  == <<"1", "0", ".", "0", ".", "0", ".", "1">>
Chr_pfx == <<"f", "i", "l", "e", "s">>

\* option arguments given to -p / --port
PortArgs ==
    { <<"8", "0">>, <<"0">>, <<>>, <<"8", "x">>, <<"0", "x", "5", "0">>,
      <<"-", "1">>, <<"6", "5", "5", "3", "4">>, <<"6", "5", "5", "3", "5">>,
      <<"4", "2", "9", "4", "9", "6", "7", "2", "9", "6">>,
      <<"4", "2", "9", "4", "9", "6", "7", "3", "7", "6">>,
      <<"-", "4", "2", "9", "4", "9", "6", "7", "2", "9", "5">>,
      <<"9", "9", "9", "9", "9", "9", "9", "9", "9", "9",
        "9", "9", "9", "9", "9", "9", "9", "9", "9", "9">> }

\* the option elements of the argument-parsing specification
ArgElements ==
    { Short("h", NoArg), Long(Chr_version, NoArg), Short("s", NoArg),
      Short("U", NoArg), Short("b", Chr_ip), Short("P", Chr_pfx),
      Long(Chr_prefix, Chr_pfx), Long(Chr_bogus, NoArg), Short("p", NoArg),
      Long(<<"p", "o">>, <<"8", "1">>) }
    \cup { Short("p", a) : a \in PortArgs }

\* the option elements of the whole-program specification
RunElements ==
    { Short("h", NoArg), Short("V", NoArg), Long(Chr_bogus, NoArg),
      Short("s", NoArg), Short("U", NoArg), Short("b", Chr_ip),
      Short("P", Chr_pfx), Short("p", <<"8", "0">>), Short("p", <<"0">>) }

\* the file operands of the operand-normalisation specification
ArgFiles == { <<"a">>, <<".", "/", "a">>, <<".", ".", "/", "a">>,
              <<".", "/", ".", "/", "a">>, <<".">>, <<".", "/">>,
              <<"a", ".", "/">>, <<"/", ".", "/", "a">> }
PortFiles == { <<"a">> }
RunFiles == { <<".", "/", "b", " ", "c">> }

Builds == {32, 64}

\* a line of output: its kind, its text, and the port number it prints
Msg(kind, text) == [kind |-> kind, text |-> text, port |-> -1]
MsgPort(kind, text, p) == [kind |-> kind, text |-> text, port |-> p]

SeqsUpTo(S, n) == UNION {[1..k -> S] : k \in 0..n}

InitWith(E, F, B) ==
    /\ pc = "getopt"
    /\ longBits \in B
    /\ args \in SeqsUpTo(E, MaxOpts)
    /\ optpos = 1
    /\ files \in SeqsUpTo(F, MaxFiles)
    /\ prefix = NullStr
    /\ bindip = "0.0.0.0"
    /\ port = 0
    /\ ssl = 0
    /\ upnp = 1
    /\ cb_data = [prefix |-> NullStr, prefix_len |-> -1, files |-> <<>>, ct |-> FALSE]
    /\ scope = <<>>
    /\ evb = FALSE
    /\ http = FALSE
    /\ ssl_mod = FALSE
    /\ acquired = [r \in Resources |-> 0]
    /\ released = [r \in Resources |-> 0]
    /\ relOrder = <<>>
    /\ indexRoute = NullStr
    /\ gencb = FALSE
    /\ allowed = {}
    /\ listening = FALSE
    /\ bindCalls = <<>>
    /\ extip = NullStr
    /\ out = <<>>
    /\ qr = <<>>
    /\ sigevents = [k \in 1..NSIGS |-> FALSE]
    /\ armed = {}
    /\ idx = 0
    /\ sigFails = 0
    /\ nullAdds = 0
    /\ pending = {}
    /\ raised = 0
    /\ handled = <<>>
    /\ loopbreaks = 0
    /\ served = <<>>
    /\ exitCode = -1

Init == InitWith(RunElements, RunFiles, {64})

(***************************************************************************)
(* Destruction of the automatic objects, last declared first, when main()  *)
(* returns.                                                                *)
(***************************************************************************)
\* the events the array sigevents holds, in the order its destructor frees
\* them (the elements of an array are destroyed last to first)
RECURSIVE HeldEvents(_)
HeldEvents(k) ==
    IF k = 0 THEN <<>>
    ELSE (IF sigevents[k] THEN <<sigs[k]>> ELSE <<>>) \o HeldEvents(k - 1)

\* the resources an object holds: a unique_ptr calls its deleter only when
\* it is not null
Held(obj) ==
    CASE obj = "sigevents" -> HeldEvents(NSIGS)
      [] obj = "ssl_mod"   -> IF ssl_mod THEN <<"tls">> ELSE <<>>
      [] obj = "http"      -> IF http THEN <<"http">> ELSE <<>>
      [] obj = "evb"       -> IF evb THEN <<"evb">> ELSE <<>>
      [] OTHER             -> <<>>

\* the resources freed when the objects of sc[1..n] go out of scope
RECURSIVE FreedBy(_, _)
FreedBy(sc, n) == IF n = 0 THEN <<>> ELSE Held(sc[n]) \o FreedBy(sc, n - 1)

Count(rs, r) == Cardinality({k \in 1..Len(rs) : rs[k] = r})

\* the objects destroyed in the order of their declarations
DestroyAll_forward ==
    LET sr == FreedBy(scope, Len(scope))
        rs == [k \in 1..Len(sr) |-> sr[Len(sr) + 1 - k]]
    IN  /\ scope' = <<>>
        /\ released' = [r \in Resources |-> released[r] + Count(rs, r)]
        /\ relOrder' = relOrder \o rs
        /\ sigevents' = [k \in 1..NSIGS |-> FALSE]
        /\ armed' = {}
        /\ ssl_mod' = FALSE
        /\ http' = FALSE
        /\ listening' = FALSE
        /\ evb' = FALSE

DestroyAll ==
    LET rs == FreedBy(scope, Len(scope))
    IN  /\ scope' = <<>>
        /\ released' = [r \in Resources |-> released[r] + Count(rs, r)]
        /\ relOrder' = relOrder \o rs
        /\ sigevents' = [k \in 1..NSIGS |-> FALSE]
        /\ armed' = {}
        /\ ssl_mod' = FALSE
        /\ http' = FALSE
        /\ listening' = FALSE
        /\ evb' = FALSE

\* return code; from main()
Return(code) ==
    /\ pc' = "exited"
    /\ exitCode' = code
    /\ DestroyAll

(***************************************************************************)
(* The option loop, one action per case of the switch.                     *)
(***************************************************************************)
AtOption(c) ==
    /\ pc = "getopt"
    /\ optpos <= Len(args)
    /\ GetoptLong(args[optpos]).opt = c

optarg == GetoptLong(args[optpos]).optarg

NextOption ==
    /\ optpos' = optpos + 1
    /\ UNCHANGED << pc, exitCode >>

OptBind ==
    /\ AtOption("b")
    /\ bindip' = Join(optarg)
    /\ NextOption
    /\ UNCHANGED << envVars, files, prefix, port, ssl, upnp, cb_data, resVars,
                    httpVars, annVars, out, sigVars, loopVars >>

OptPortInvalid ==
    /\ AtOption("p")
    /\ PortRejected(optarg, longBits)
    /\ out' = Append(out, Msg("invalid_port", Join(optarg)))
    /\ Return(1)
    \* port is assigned before the check; the local is dead at the return
    /\ UNCHANGED << envVars, optpos, files, confVars, cb_data, acquired,
                    indexRoute, gencb, allowed, bindCalls, annVars, idx,
                    sigFails, nullAdds, loopVars >>

OptPort ==
    /\ AtOption("p")
    /\ ~PortRejected(optarg, longBits)
    /\ port' = PortParsed(optarg, longBits)
    /\ NextOption
    /\ UNCHANGED << envVars, files, prefix, bindip, ssl, upnp, cb_data, resVars,
                    httpVars, annVars, out, sigVars, loopVars >>

OptPrefix ==
    /\ AtOption("P")
    /\ prefix' = Join(optarg)
    /\ NextOption
    /\ UNCHANGED << envVars, files, bindip, port, ssl, upnp, cb_data, resVars,
                    httpVars, annVars, out, sigVars, loopVars >>

OptSsl ==
    /\ AtOption("s")
    /\ ssl' = 1
    /\ NextOption
    /\ UNCHANGED << envVars, files, prefix, bindip, port, upnp, cb_data, resVars,
                    httpVars, annVars, out, sigVars, loopVars >>

OptNoUpnp ==
    /\ AtOption("U")
    /\ upnp' = 0
    /\ NextOption
    /\ UNCHANGED << envVars, files, prefix, bindip, port, ssl, cb_data, resVars,
                    httpVars, annVars, out, sigVars, loopVars >>

\* case 'V' without the return: the version is printed and the loop goes on
OptVersion_continue ==
    /\ AtOption("V")
    /\ out' = Append(out, Msg("version", ""))
    /\ NextOption
    /\ UNCHANGED << envVars, files, confVars, cb_data, resVars, httpVars,
                    annVars, sigVars, loopVars >>

OptVersion ==
    /\ AtOption("V")
    /\ out' = Append(out, Msg("version", ""))
    /\ Return(0)
    /\ UNCHANGED << envVars, optpos, files, confVars, cb_data, acquired,
                    indexRoute, gencb, allowed, bindCalls, annVars, idx,
                    sigFails, nullAdds, loopVars >>

\* default: 'h', and '?' for an unknown option or a missing argument
OptDefault ==
    /\ pc = "getopt"
    /\ optpos <= Len(args)
    /\ GetoptLong(args[optpos]).opt \notin {"b", "p", "P", "s", "U", "V"}
    /\ out' = Append(out, Msg("help", "stdout"))
    /\ Return(0)
    /\ UNCHANGED << envVars, optpos, files, confVars, cb_data, acquired,
                    indexRoute, gencb, allowed, bindCalls, annVars, idx,
                    sigFails, nullAdds, loopVars >>

\* getopt_long returns -1
OptEnd ==
    /\ pc = "getopt"
    /\ optpos > Len(args)
    /\ pc' = "operands"
    /\ UNCHANGED << envVars, optpos, files, confVars, cb_data, resVars, httpVars,
                    annVars, out, sigVars, loopVars, exitCode >>

\* if (argc == optind)
NoFiles ==
    /\ pc = "operands"
    /\ Len(files) = 0
    /\ out' = Append(out, Msg("help", "stderr"))
    /\ Return(1)
    /\ UNCHANGED << envVars, optpos, files, confVars, cb_data, acquired,
                    indexRoute, gencb, allowed, bindCalls, annVars, idx,
                    sigFails, nullAdds, loopVars >>

\* if (argv[i][0] == '.' && argv[i][1] == '/') argv[i] += 2;
StripDotSlash(f) ==
    IF Len(f) >= 2 /\ f[1] = "." /\ f[2] = "/" THEN SubSeq(f, 3, Len(f)) ELSE f

StripPrefixes ==
    /\ pc = "operands"
    /\ Len(files) # 0
    /\ files' = [k \in 1..Len(files) |-> StripDotSlash(files[k])]
    /\ pc' = "cb_data"
    /\ UNCHANGED << envVars, optpos, confVars, cb_data, resVars, httpVars,
                    annVars, out, sigVars, loopVars, exitCode >>

\* cb_data.prefix, cb_data.prefix_len, cb_data.files
SetCallbackData ==
    /\ pc = "cb_data"
    /\ cb_data' = [cb_data EXCEPT
                     !.prefix = prefix,
                     !.prefix_len = IF prefix # NullStr THEN Len(prefix) ELSE @,
                     !.files = files]
    /\ pc' = "evb"
    /\ UNCHANGED << envVars, optpos, files, confVars, resVars, httpVars,
                    annVars, out, sigVars, loopVars, exitCode >>


(***************************************************************************)
(* Acquisition of the event loop and the listener, routes, port, bind.     *)
(***************************************************************************)
Acquire(r) == acquired' = [acquired EXCEPT ![r] = @ + 1]

\* evb{event_base_new(), event_base_free}
EvbNew ==
    /\ pc = "evb"
    /\ evb' = TRUE
    /\ Acquire("evb")
    /\ scope' = Append(scope, "evb")
    /\ pc' = "http"
    /\ UNCHANGED << envVars, optpos, files, confVars, cb_data, http, ssl_mod,
                    released, relOrder, httpVars, annVars, out, sigVars,
                    loopVars, exitCode >>

EvbNewFails ==
    /\ pc = "evb"
    /\ out' = Append(out, Msg("fatal", "event_base_new() failed."))
    /\ Return(1)
    /\ UNCHANGED << envVars, optpos, files, confVars, cb_data, acquired,
                    indexRoute, gencb, allowed, bindCalls, annVars, idx,
                    sigFails, nullAdds, loopVars >>

\* http{evhttp_new(evb.get()), evhttp_free}
HttpNew ==
    /\ pc = "http"
    /\ http' = TRUE
    /\ Acquire("http")
    /\ scope' = Append(scope, "http")
    /\ pc' = "routes"
    /\ UNCHANGED << envVars, optpos, files, confVars, cb_data, evb, ssl_mod,
                    released, relOrder, httpVars, annVars, out, sigVars,
                    loopVars, exitCode >>

HttpNewFails ==
    /\ pc = "http"
    /\ out' = Append(out, Msg("fatal", "evhttp_new() failed."))
    /\ Return(1)
    /\ UNCHANGED << envVars, optpos, files, confVars, cb_data, acquired,
                    indexRoute, gencb, allowed, bindCalls, annVars, idx,
                    sigFails, nullAdds, loopVars >>

\* the index route at the root whatever the prefix
IndexUri_root(pfx) == "/"

\* index_uri << '/' << prefix << '/'
IndexUri(pfx) == IF pfx = NullStr THEN "/" ELSE "/" \o pfx \o "/"

\* evhttp_set_allowed_methods, evhttp_set_gencb, evhttp_set_cb
SetRoutes ==
    /\ pc = "routes"
    /\ allowed' = {"GET", "HEAD"}
    /\ gencb' = TRUE
    /\ indexRoute' = IndexUri(prefix)
    /\ pc' = "port"
    /\ UNCHANGED << envVars, optpos, files, confVars, cb_data, resVars, listening,
                    bindCalls, annVars, out, sigVars, loopVars, exitCode >>

\* the draw with the modulus 0x8000
RandomPort_wide(r) == (r % 32768) + RANDOM_BASE

\* port = random() % 0x7bff + 0x400
RandomPort(r) == (r % RANDOM_MOD) + RANDOM_BASE

RandomSamples == {RANDOM_MOD - 1, RANDOM_MAX}
RandomOutcomes == 0..MaxRandom

\* if (!port), with random() returning a value of R
ChoosePort(R) ==
    /\ pc = "port"
    /\ port = 0
    /\ \E r \in R : port' = RandomPort(r)
    /\ pc' = "bind"
    /\ UNCHANGED << envVars, optpos, files, prefix, bindip, ssl, upnp, cb_data,
                    resVars, httpVars, annVars, out, sigVars, loopVars, exitCode >>

KeepPort ==
    /\ pc = "port"
    /\ port # 0
    /\ pc' = "bind"
    /\ UNCHANGED << envVars, optpos, files, confVars, cb_data, resVars, httpVars,
                    annVars, out, sigVars, loopVars, exitCode >>

\* evhttp_bind_socket(http.get(), bindip, port) returns 0
BindSocket ==
    /\ pc = "bind"
    /\ bindCalls' = Append(bindCalls, <<bindip, port>>)
    /\ listening' = TRUE
    /\ pc' = "helpers"
    /\ UNCHANGED << envVars, optpos, files, confVars, cb_data, resVars, indexRoute,
                    gencb, allowed, annVars, out, sigVars, loopVars, exitCode >>

\* a failed bind that is tried once more
BindSocketFails_retry ==
    /\ pc = "bind"
    /\ Len(bindCalls) < 2
    /\ bindCalls' = Append(bindCalls, <<bindip, port>>)
    /\ UNCHANGED << pc, envVars, optpos, files, confVars, cb_data, resVars,
                    indexRoute, gencb, allowed, listening, annVars, out,
                    sigVars, loopVars, exitCode >>

\* evhttp_bind_socket() fails: the message, return 1
BindSocketFails ==
    /\ pc = "bind"
    /\ bindCalls' = Append(bindCalls, <<bindip, port>>)
    /\ out' = Append(out, MsgPort("fatal",
                           "evhttp_bind_socket(" \o bindip \o ", "
                           \o ToString(port) \o ") failed.", port))
    /\ Return(1)
    /\ UNCHANGED << envVars, optpos, files, confVars, cb_data, acquired,
                    indexRoute, gencb, allowed, annVars, idx, sigFails, nullAdds,
                    loopVars >>


(***************************************************************************)
(* Helper modules, external address, TLS, announcement.                    *)
(***************************************************************************)
\* init_charset(tmp); ContentType ct; cb_data.ct = &ct;
InitHelpers ==
    /\ pc = "helpers"
    /\ cb_data' = [cb_data EXCEPT !.ct = TRUE]
    /\ scope' = Append(scope, "ct")
    /\ pc' = "extip"
    /\ UNCHANGED << envVars, optpos, files, confVars, evb, http, ssl_mod, acquired,
                    released, relOrder, httpVars, annVars, out, sigVars,
                    loopVars, exitCode >>

ExternalAddr == "203.0.113.7"

\* the addresses ExternalIP{port, bindip, upnp} can end up with
ExternalIP(p, ip, enabled) ==
    IF enabled = 1 THEN {ExternalAddr, NullStr} ELSE {NullStr}

ResolveExternalIP ==
    /\ pc = "extip"
    /\ extip' \in ExternalIP(port, bindip, upnp)
    /\ scope' = Append(scope, "extip")
    /\ pc' = "ssl"
    /\ UNCHANGED << envVars, optpos, files, confVars, cb_data, evb, http, ssl_mod,
                    acquired, released, relOrder, httpVars, qr, out, sigVars,
                    loopVars, exitCode >>

\* SSLMod holds a TLS context iff TLS is enabled
SSLMod(enabled) == enabled = 1

InitSSL ==
    /\ pc = "ssl"
    /\ ssl_mod' = SSLMod(ssl)
    /\ acquired' = IF SSLMod(ssl) THEN [acquired EXCEPT !["tls"] = @ + 1]
                   ELSE acquired
    /\ scope' = Append(scope, "ssl_mod")
    /\ pc' = "ready"
    /\ UNCHANGED << envVars, optpos, files, confVars, cb_data, evb, http,
                    released, relOrder, httpVars, annVars, out, sigVars,
                    loopVars, exitCode >>

\* "Ready to share %d files.", "Bound to %s:%d."
PrintReady ==
    /\ pc = "ready"
    /\ out' = out \o << Msg("ready", ToString(Len(files))),
                        MsgPort("bound", bindip \o ":" \o ToString(port), port) >>
    /\ pc' = "announce"
    /\ UNCHANGED << envVars, optpos, files, confVars, cb_data, resVars, httpVars,
                    annVars, sigVars, loopVars, exitCode >>

\* evhttp_encode_uri(): unreserved characters are kept, the others become %XX
Unreserved == DecDigits \cup {"a", "b", "c", "d", "e", "f"} \cup {"-", ".", "_", "~"}

HexCode(c) == CASE c = " " -> "20" [] c = "/" -> "2F" [] OTHER -> "3F"

RECURSIVE EncodeUri(_)
EncodeUri(cs) ==
    IF cs = <<>> THEN ""
    ELSE (IF Head(cs) \in Unreserved THEN Head(cs) ELSE "%" \o HexCode(Head(cs)))
         \o EncodeUri(Tail(cs))

\* the text of server_uri without the file name
ServerUriBase ==
    "http" \o (IF ssl # 0 THEN "s" ELSE "") \o "://" \o extip \o ":"
    \o ToString(port) \o "/"
    \o (IF prefix # NullStr THEN prefix \o "/" ELSE "")

\* the URI with the first file name whatever the number of files
ServerUri_first ==
    ServerUriBase \o (IF Len(files) >= 1 THEN EncodeUri(files[1]) ELSE "")

ServerUri ==
    ServerUriBase \o (IF Len(files) = 1 THEN EncodeUri(files[1]) ELSE "")

\* the announcement without the test of extip.addr
Announce_unguarded ==
    /\ pc = "announce"
    /\ out' = Append(out, MsgPort("reachable", ServerUri, port))
    /\ qr' = Append(qr, ServerUri)
    /\ pc' = "sigarray"
    /\ UNCHANGED << envVars, optpos, files, confVars, cb_data, resVars, httpVars,
                    extip, sigVars, loopVars, exitCode >>

\* if (extip.addr) { ... fprintf; print_qrcode }
Announce ==
    /\ pc = "announce"
    /\ extip # NullStr
    /\ out' = Append(out, MsgPort("reachable", ServerUri, port))
    /\ qr' = Append(qr, ServerUri)
    /\ pc' = "sigarray"
    /\ UNCHANGED << envVars, optpos, files, confVars, cb_data, resVars, httpVars,
                    extip, sigVars, loopVars, exitCode >>

\* evhttp_encode_uri() returns NULL: throw std::bad_alloc(), which nothing
\* catches.  Whether the stack is unwound before std::terminate() is
\* implementation-defined.
AnnounceThrows ==
    /\ pc = "announce"
    /\ extip # NullStr
    /\ Len(files) = 1
    /\ pc' = "aborted"
    /\ \/ DestroyAll
       \/ UNCHANGED << resVars, listening, sigevents, armed >>
    /\ UNCHANGED << envVars, optpos, files, confVars, cb_data, acquired,
                    indexRoute, gencb, allowed, bindCalls, annVars, out, idx,
                    sigFails, nullAdds, loopVars, exitCode >>

NoAnnounce ==
    /\ pc = "announce"
    /\ extip = NullStr
    /\ pc' = "sigarray"
    /\ UNCHANGED << envVars, optpos, files, confVars, cb_data, resVars, httpVars,
                    annVars, out, sigVars, loopVars, exitCode >>

(***************************************************************************)
(* Signal watchers.                                                        *)
(***************************************************************************)
\* std::array<std::unique_ptr<event, ...>, sigs.size()> sigevents;
SigArray ==
    /\ pc = "sigarray"
    /\ scope' = Append(scope, "sigevents")
    /\ idx' = 1
    /\ pc' = "siginit"
    /\ UNCHANGED << envVars, optpos, files, confVars, cb_data, evb, http, ssl_mod,
                    acquired, released, relOrder, httpVars, annVars, out,
                    sigevents, armed, sigFails, nullAdds, loopVars, exitCode >>

AfterSigStep == IF idx = NSIGS THEN "sigpipe" ELSE "siginit"

\* evsignal_new() succeeds; event_add(sigevents[i].get(), NULL)
SigInstall ==
    /\ pc = "siginit"
    /\ sigevents' = [sigevents EXCEPT ![idx] = TRUE]
    /\ Acquire(sigs[idx])
    /\ armed' = armed \cup {idx}
    /\ idx' = idx + 1
    /\ pc' = AfterSigStep
    /\ UNCHANGED << envVars, optpos, files, confVars, cb_data, scope, evb, http,
                    ssl_mod, released, relOrder, httpVars, annVars, out,
                    sigFails, nullAdds, loopVars, exitCode >>

\* evsignal_new() fails: the warning is printed, and since the else branch
\* is the empty statement event_add() is called with a null event all the
\* same.  That call is undefined: it has no effect, or the process dies.
SigInstallFails ==
    /\ pc = "siginit"
    /\ sigFails < MaxSigFail
    /\ sigFails' = sigFails + 1
    /\ nullAdds' = nullAdds + 1
    /\ out' = Append(out, Msg("warning", "evsignal_new(" \o sigs[idx] \o ") failed."))
    /\ \/ /\ idx' = idx + 1
          /\ pc' = AfterSigStep
       \/ /\ pc' = "crashed"
          /\ idx' = idx
    /\ UNCHANGED << envVars, optpos, files, confVars, cb_data, resVars, httpVars,
                    annVars, sigevents, armed, loopVars, exitCode >>

\* signal(SIGPIPE, SIG_IGN), then event_base_dispatch() is entered
IgnoreSigpipe ==
    /\ pc = "sigpipe"
    /\ \/ out' = out
       \/ out' = Append(out, Msg("warning", "SIGPIPE"))
    /\ pc' = "dispatch"
    /\ UNCHANGED << envVars, optpos, files, confVars, cb_data, resVars, httpVars,
                    annVars, sigVars, loopVars, exitCode >>


(***************************************************************************)
(* The event loop: signals and term_handler.                               *)
(***************************************************************************)
\* a signal of sigs is raised once the watchers are set up; the watcher
\* added to the loop records it
RaiseSignal(k) ==
    /\ pc \in {"sigpipe", "dispatch"}
    /\ k \in armed
    /\ raised < MaxSignals
    /\ raised' = raised + 1
    /\ pending' = pending \cup {k}
    /\ UNCHANGED << pc, envVars, optpos, files, confVars, cb_data, resVars,
                    httpVars, annVars, out, sigVars, handled, loopbreaks,
                    served, exitCode >>

\* term_handler without the event_base_loopbreak() call
term_handler_nobreak(k) ==
    /\ pc = "dispatch"
    /\ loopbreaks = 0
    /\ k \in pending
    /\ pending' = pending \ {k}
    /\ out' = Append(out, Msg("terminating", sigs[k]))
    /\ handled' = Append(handled, sigs[k])
    /\ UNCHANGED << pc, envVars, optpos, files, confVars, cb_data, resVars,
                    httpVars, annVars, sigVars, raised, loopbreaks, served,
                    exitCode >>

\* term_handler(fd, what, data): the loop runs callbacks only inside
\* event_base_dispatch() and runs no further callback once a loop-break
\* was requested
term_handler(k) ==
    /\ pc = "dispatch"
    /\ loopbreaks = 0
    /\ k \in pending
    /\ pending' = pending \ {k}
    /\ out' = Append(out, Msg("terminating", sigs[k]))
    /\ handled' = Append(handled, sigs[k])
    /\ loopbreaks' = loopbreaks + 1
    /\ UNCHANGED << pc, envVars, optpos, files, confVars, cb_data, resVars,
                    httpVars, annVars, sigVars, raised, served, exitCode >>

(***************************************************************************)
(* Requests.  The listener looks a request up as evhttp does: a method    *)
(* that is not allowed is answered without any callback; otherwise the     *)
(* path of the URI (the part before '?') is percent-decoded and compared   *)
(* with the path of the evhttp_set_cb() route, and the generic callback    *)
(* gets what matches no route.                                             *)
(***************************************************************************)
RECURSIVE UriPath(_)
UriPath(cs) ==
    IF cs = <<>> \/ Head(cs) = "?" THEN <<>>
    ELSE <<Head(cs)>> \o UriPath(Tail(cs))

HexChar(h1, h2) ==
    CASE h1 = "2" /\ h2 = "0" -> " "
      [] h1 = "2" /\ h2 = "F" -> "/"
      [] h1 = "6" /\ h2 = "6" -> "f"
      [] OTHER -> "?"

RECURSIVE DecodeUri(_)
DecodeUri(cs) ==
    IF cs = <<>> THEN ""
    ELSE IF Head(cs) = "%" /\ Len(cs) >= 3
         THEN HexChar(cs[2], cs[3]) \o DecodeUri(SubSeq(cs, 4, Len(cs)))
         ELSE Head(cs) \o DecodeUri(Tail(cs))

\* the callback a request is given to
Dispatch(req) ==
    IF req.method \notin allowed THEN "rejected"
    ELSE IF DecodeUri(UriPath(req.uri)) = indexRoute THEN "handle_index"
    ELSE IF gencb THEN "handle_file"
    ELSE "not_found"

Methods == {"GET", "POST"}

RequestUris ==
    { <<"/">>, <<"/", "f", "i", "l", "e", "s", "/">>,
      <<"/", "?", "f">>, <<"/", "%", "6", "6", "i", "l", "e", "s", "/">>,
      <<"/", "b", "%", "2", "0", "c">> }

Requests == [method : Methods, uri : RequestUris]

\* a request arrives on the bound socket and the loop runs its callback;
\* as for the signals, only inside event_base_dispatch() and not after a
\* loop-break
HandleRequest(req) ==
    /\ pc = "dispatch"
    /\ loopbreaks = 0
    /\ http /\ listening
    /\ Len(served) < MaxRequests
    /\ served' = Append(served, [req |-> req, cb |-> Dispatch(req)])
    /\ UNCHANGED << pc, envVars, optpos, files, confVars, cb_data, resVars,
                    httpVars, annVars, out, sigVars, pending, raised, handled,
                    loopbreaks, exitCode >>

\* event_base_dispatch() returning with no loop-break requested
DispatchReturns_unbroken ==
    /\ pc = "dispatch"
    /\ Return(0)
    /\ UNCHANGED << envVars, optpos, files, confVars, cb_data, acquired,
                    indexRoute, gencb, allowed, bindCalls, annVars, out, idx,
                    sigFails, nullAdds, loopVars >>

\* event_base_dispatch() returns after the loop-break; return 0
DispatchReturns ==
    /\ pc = "dispatch"
    /\ loopbreaks > 0
    /\ Return(0)
    /\ UNCHANGED << envVars, optpos, files, confVars, cb_data, acquired,
                    indexRoute, gencb, allowed, bindCalls, annVars, out, idx,
                    sigFails, nullAdds, loopVars >>

(***************************************************************************)
(* The lifecycle state, read off the position of main().                   *)
(***************************************************************************)
BoundPcs == {"helpers", "extip", "ssl", "ready", "announce", "sigarray",
             "siginit", "sigpipe"}

\* where main is left by std::terminate() or by the undefined event_add();
\* both happen between the bind and the dispatch
DeadPcs == {"aborted", "crashed"}

Lifecycle ==
    IF pc = "dispatch"
    THEN (IF loopbreaks = 0 THEN "RUNNING" ELSE "STOPPING")
    ELSE IF loopbreaks > 0 THEN "STOPPED"
    ELSE IF pc \in BoundPcs \cup DeadPcs THEN "BOUND"
    ELSE "INIT"

(***************************************************************************)
(* Specifications.                                                         *)
(***************************************************************************)
ParseStep ==
    \/ OptBind \/ OptPortInvalid \/ OptPort \/ OptPrefix \/ OptSsl
    \/ OptNoUpnp \/ OptVersion \/ OptDefault \/ OptEnd
    \/ NoFiles \/ StripPrefixes \/ SetCallbackData

BootStep ==
    \/ EvbNew \/ EvbNewFails \/ HttpNew \/ HttpNewFails \/ SetRoutes
    \/ KeepPort \/ BindSocket \/ BindSocketFails
    \/ InitHelpers \/ ResolveExternalIP \/ InitSSL \/ PrintReady
    \/ Announce \/ AnnounceThrows \/ NoAnnounce
    \/ SigArray \/ SigInstall \/ SigInstallFails \/ IgnoreSigpipe

LoopStep == (\E k \in 1..NSIGS : term_handler(k)) \/ DispatchReturns

MainStep == ParseStep \/ BootStep \/ ChoosePort(RandomSamples) \/ LoopStep

Next == MainStep \/ (\E k \in 1..NSIGS : RaiseSignal(k))

Spec == Init /\ [][Next]_vars


\* argument parsing alone, over a richer set of command lines and both builds
InitArgs == InitWith(ArgElements, PortFiles, Builds)

SpecArgs == InitArgs /\ [][ParseStep]_vars

\* the file operands alone, over a richer set of operands
InitFiles == InitWith({Short("P", Chr_pfx)}, ArgFiles, {64})

FilesStep == OptPrefix \/ OptEnd \/ NoFiles \/ StripPrefixes \/ SetCallbackData

SpecFiles == InitFiles /\ [][FilesStep]_vars

\* the port selection over the outcomes 0..MaxRandom of random()
InitPort == InitWith({}, PortFiles, {64})

PortStep ==
    \/ OptEnd \/ NoFiles \/ StripPrefixes \/ SetCallbackData
    \/ EvbNew \/ HttpNew \/ SetRoutes \/ ChoosePort(RandomOutcomes)
    \/ BindSocket \/ BindSocketFails
    \/ InitHelpers \/ ResolveExternalIP \/ InitSSL \/ PrintReady
    \/ Announce \/ NoAnnounce

SpecPort == InitPort /\ [][PortStep]_vars

\* the shutdown path under the fairness of a sequential program: main()
\* and the callbacks the loop runs keep taking their next step
InitLive == InitWith({Short("s", NoArg)}, PortFiles, {64})

LiveStep ==
    \/ OptSsl \/ OptEnd \/ NoFiles \/ StripPrefixes \/ SetCallbackData
    \/ EvbNew \/ EvbNewFails \/ HttpNew \/ HttpNewFails \/ SetRoutes
    \/ ChoosePort({RANDOM_MAX}) \/ BindSocket \/ BindSocketFails
    \/ InitHelpers \/ ResolveExternalIP \/ InitSSL \/ PrintReady
    \/ Announce \/ AnnounceThrows \/ NoAnnounce
    \/ SigArray \/ SigInstall \/ SigInstallFails \/ IgnoreSigpipe
    \/ LoopStep

NextLive == LiveStep \/ (\E k \in 1..NSIGS : RaiseSignal(k))

SpecLive == InitLive /\ [][NextLive]_vars /\ WF_vars(LiveStep)

\* the server with its clients: requests arrive while the loop dispatches
InitServe == InitWith({Short("P", Chr_pfx)}, RunFiles, {64})

ServeStep ==
    \/ OptPrefix \/ OptEnd \/ NoFiles \/ StripPrefixes \/ SetCallbackData
    \/ EvbNew \/ EvbNewFails \/ HttpNew \/ HttpNewFails \/ SetRoutes
    \/ ChoosePort({RANDOM_MAX}) \/ BindSocket \/ BindSocketFails
    \/ InitHelpers \/ ResolveExternalIP \/ InitSSL \/ PrintReady
    \/ Announce \/ AnnounceThrows \/ NoAnnounce
    \/ SigArray \/ SigInstall \/ IgnoreSigpipe
    \/ (\E req \in Requests : HandleRequest(req))
    \/ LoopStep
    \/ (\E k \in 1..NSIGS : RaiseSignal(k))

SpecServe == InitServe /\ [][ServeStep]_vars


(***************************************************************************)
(* Properties.                                                             *)
(***************************************************************************)
AllReleasedOnce ==
    \A r \in Resources : released[r] = acquired[r] /\ released[r] <= 1

\* C1: when term_handler runs for a terminating signal inside the dispatch
\* the lifecycle becomes STOPPING, and a signal pending in the dispatch leads
\* to the process having exited with code 0 with every acquired resource
\* released exactly once.
C1_SignalShutdown ==
    /\ [][(\E k \in 1..NSIGS : term_handler(k)) => Lifecycle' = "STOPPING"]_vars
    /\ (pc = "dispatch" /\ pending # {})
           ~> (pc = "exited" /\ exitCode = 0 /\ AllReleasedOnce)

C1_Witness ==
    /\ pc = "exited"
    /\ exitCode = 0
    /\ handled # <<>>
    /\ \A r \in Resources : acquired[r] = 1 /\ released[r] = 1


OptAt(k) == GetoptLong(args[k]).opt
ArgAt(k) == GetoptLong(args[k]).optarg

NoPortOption == \A k \in 1..Len(args) : OptAt(k) # "p"

NothingAcquired == \A r \in Resources : acquired[r] = 0

\* C2: when no port is configured, the port given to the bind call, printed
\* in "Bound to" and used in the announced URL is in 1024..32767 (and it is
\* one and the same port).
C2_RandomPortInRange ==
    NoPortOption =>
        /\ \A k \in 1..Len(bindCalls) : bindCalls[k][2] \in 1024..32767
        /\ \A k \in 1..Len(out) :
               out[k].kind \in {"bound", "reachable"} =>
                   /\ out[k].port \in 1024..32767
                   /\ out[k].port = bindCalls[1][2]

C2_Witness ==
    /\ NoPortOption
    /\ bindCalls = << <<"0.0.0.0", 32766>> >>
    /\ \E k \in 1..Len(out) : out[k].kind = "bound" /\ out[k].port = 32766
    /\ \E k \in 1..Len(out) : out[k].kind = "reachable" /\ out[k].port = 32766

\* C3: when port == 0 every value of 1024..32767, both ends included, is the
\* chosen port for some outcome of random().
C3_EveryPortDrawable ==
    (pc = "port" /\ port = 0) =>
        (1024..32767) \subseteq {RandomPort(r) : r \in RandomOutcomes}

(***************************************************************************)
(* The number an option argument denotes, computed in 128 bits where none  *)
(* of the arguments of the model overflows.                                *)
(***************************************************************************)
IsNumber(s) == Len(s) > 0 /\ Strtol(s, 128).end = Len(s) + 1

NumIsNegative(s) == Strtol(s, 128).val[8] >= 32768
NumIsZero(s) == IsZeroFrom(Strtol(s, 128).val, 1)
NumAtLeast65535(s) ==
    /\ ~NumIsNegative(s)
    /\ \/ ~IsZeroFrom(Strtol(s, 128).val, 2)
       \/ Strtol(s, 128).val[1] >= 65535
NumAbove65535(s) ==
    /\ ~NumIsNegative(s)
    /\ ~IsZeroFrom(Strtol(s, 128).val, 2)

\* option k was reached by the option loop and decided
Decided(k) == optpos > k \/ (optpos = k /\ pc # "getopt")

\* option k made main() return
ExitedAt(k) == optpos = k /\ pc = "exited"

\* C4: a -p/--port argument that is not a number, or whose value is outside
\* 1..65535, makes argument parsing fail with exit code 1, and nothing is
\* bound.
C4_InvalidPortRejected ==
    \A k \in 1..Len(args) :
        ( /\ OptAt(k) = "p"
          /\ Decided(k)
          /\ \/ ~IsNumber(ArgAt(k))
             \/ NumIsNegative(ArgAt(k)) \/ NumIsZero(ArgAt(k))
             \/ NumAbove65535(ArgAt(k)) )
        => (ExitedAt(k) /\ exitCode = 1 /\ bindCalls = <<>>)

\* C5: a -p/--port value is rejected exactly when it is not a number, zero
\* (or below), or at least 65535; so after parsing port is 0 (no option) or
\* in 1..65534, and port is 0, the case of the random draw, only when the
\* option was not given.
C5_RejectedExactlyWhen ==
    /\ \A k \in 1..Len(args) :
           (OptAt(k) = "p" /\ Decided(k)) =>
               ( (ExitedAt(k) /\ exitCode = 1)
                   <=> \/ ~IsNumber(ArgAt(k))
                       \/ NumIsNegative(ArgAt(k)) \/ NumIsZero(ArgAt(k))
                       \/ NumAtLeast65535(ArgAt(k)) )
    /\ pc \notin {"getopt", "exited"} =>
           /\ port = 0 \/ port \in 1..65534
           /\ port = 0 => NoPortOption

\* an option element whose name getopt_long does not know, whatever argument
\* comes with it
UnknownFlag(e) ==
    /\ GetoptLong([e EXCEPT !.arg = NoArg]).opt = "?"
    /\ GetoptLong([e EXCEPT !.arg = <<"x">>]).opt = "?"

\* C6: an unknown option flag makes the process exit with code 1, and no
\* event loop or listener is acquired.
C6_UnknownFlagExits1 ==
    \A k \in 1..Len(args) :
        (UnknownFlag(args[k]) /\ Decided(k)) =>
            (ExitedAt(k) /\ exitCode = 1 /\ NothingAcquired)

\* C7: --prefix PFX is accepted like -P PFX: parsing goes on, prefix becomes
\* PFX and the index route is registered at /PFX/.
C7_LongPrefixAccepted ==
    \A k \in 1..Len(args) :
        (args[k].long /\ args[k].name = Chr_prefix /\ args[k].arg # NoArg
           /\ Decided(k)) =>
            /\ ~ExitedAt(k)
            /\ (k = Len(args) /\ pc # "getopt") => prefix = Join(args[k].arg)
            /\ (k = Len(args) /\ indexRoute # NullStr)
                   => indexRoute = "/" \o Join(args[k].arg) \o "/"


HelpOrVersion(k) == OptAt(k) \in {"h", "V"}

\* C8 as stated: with -h/--help or -V/--version on the command line the
\* process ends with exit code 0, the operands are not validated and nothing
\* is acquired, whatever other options accompany it.
C8_HelpAlwaysExits0 ==
    (\E k \in 1..Len(args) : HelpOrVersion(k)) =>
        /\ pc \in {"getopt", "exited"}
        /\ pc = "exited" => exitCode = 0
        /\ NothingAcquired

\* C8 amended: with -h/--help or -V/--version on the command line, and no
\* -p/--port option before it whose value is rejected, the process ends with
\* exit code 0 at that option or before it, the operands are not validated
\* and nothing is acquired.
C8_HelpExits0 ==
    \A k \in 1..Len(args) :
        ( /\ HelpOrVersion(k)
          /\ \A j \in 1..(k - 1) :
                 OptAt(j) = "p" => ~PortRejected(ArgAt(j), longBits) )
        => /\ pc \in {"getopt", "exited"}
           /\ optpos <= k
           /\ pc = "exited" => exitCode = 0
           /\ NothingAcquired

C8_Witness ==
    /\ Len(args) = 2
    /\ OptAt(1) = "p"
    /\ OptAt(2) = "V"
    /\ files = <<>>
    /\ ExitedAt(2)
    /\ exitCode = 0

\* C9: with zero file operands and no help/version flag the process exits
\* with code 1 before any resource is acquired; so a run that acquires a
\* resource has a non-empty file list.
C9_NoFilesExits1 ==
    /\ ( /\ files = <<>>
         /\ \A k \in 1..Len(args) : ~HelpOrVersion(k)
         /\ pc = "exited" )
       => (exitCode = 1 /\ NothingAcquired)
    /\ ~NothingAcquired => files # <<>>

BeginsDotSlash(f) == Len(f) >= 2 /\ f[1] = "." /\ f[2] = "/"

\* C10: the normalisation keeps the number and the order of the operands,
\* leaves an operand that does not begin with ./ unchanged, removes the ./
\* of one that does, and leaves no entry that still begins with ./ .
C10_NoDotSlashLeft ==
    [][ (pc = "operands" /\ pc' = "cb_data") =>
          /\ Len(files') = Len(files)
          /\ \A k \in 1..Len(files) :
                 /\ ~BeginsDotSlash(files[k]) => files'[k] = files[k]
                 /\ BeginsDotSlash(files[k]) => <<".", "/">> \o files'[k] = files[k]
                 /\ ~BeginsDotSlash(files'[k]) ]_vars


\* C11: exactly one index route is registered, at / without a prefix and at
\* /<prefix>/ with one; an accepted request whose path is that path goes to
\* the index responder, and one whose path is any other path (/ itself when
\* a prefix is set) goes to the generic file route.
C11_RouteTable ==
    /\ indexRoute # NullStr =>
           /\ gencb
           /\ indexRoute = (IF prefix = NullStr THEN "/"
                            ELSE "/" \o prefix \o "/")
    /\ \A k \in 1..Len(served) :
           LET rq   == served[k].req
               path == DecodeUri(UriPath(rq.uri))
           IN  rq.method \in {"GET", "HEAD"} =>
                   /\ path = (IF prefix = NullStr THEN "/" ELSE "/" \o prefix \o "/")
                          => served[k].cb = "handle_index"
                   /\ path # (IF prefix = NullStr THEN "/" ELSE "/" \o prefix \o "/")
                          => served[k].cb = "handle_file"

C11_Witness ==
    /\ prefix = "files"
    /\ indexRoute = "/files/"
    /\ \E k \in 1..Len(served) :
           /\ served[k].req = [method |-> "GET", uri |-> <<"/">>]
           /\ served[k].cb = "handle_file"


Announced == qr # <<>> \/ \E k \in 1..Len(out) : out[k].kind = "reachable"

\* C12: with NAT traversal disabled (-U) no external address results, and
\* without an external address nothing is announced: no "Server reachable
\* at" line, no QR call.  The step that skips the announcement changes
\* nothing but the position of main, which goes on to the signal watchers,
\* and in RUNNING the listener is bound to bindip:port.  The URL line and the
\* QR call occur only with a resolved address.
C12_NoAddressNoAnnounce ==
    /\ [](upnp = 0 => extip = NullStr)
    /\ [](Announced => extip # NullStr)
    /\ [][(pc = "announce" /\ extip = NullStr) =>
              /\ pc' = "sigarray"
              /\ UNCHANGED << out, qr, confVars, resVars, httpVars, exitCode >>]_vars
    /\ [](Lifecycle = "RUNNING" =>
              listening /\ bindCalls = << <<bindip, port>> >>)

C12_Witness ==
    /\ upnp = 0
    /\ extip = NullStr
    /\ Lifecycle = "RUNNING"
    /\ listening
    /\ ~Announced


\* the percent-encoded form of the file operands of the runs
EncodedName(f) ==
    IF f = <<"b", " ", "c">> THEN "b%20c" ELSE "<unexpected>"

\* C13: the announced URL is scheme://address:port/, then prefix/ iff a
\* prefix is configured, then the percent-encoded file name iff exactly one
\* file is served; the scheme is https iff TLS is enabled, and the port is
\* the port of the one bind call.  The QR code gets the same text.
C13_AnnouncedUrl ==
    \A k \in 1..Len(out) :
        out[k].kind = "reachable" =>
            /\ Len(bindCalls) = 1
            /\ out[k].text =
                   (IF ssl = 0 THEN "http" ELSE "https")
                   \o "://203.0.113.7:" \o ToString(bindCalls[1][2]) \o "/"
                   \o (IF prefix = NullStr THEN "" ELSE prefix \o "/")
                   \o (IF Len(files) = 1 THEN EncodedName(files[1]) ELSE "")
            /\ qr = << out[k].text >>

C13_Witness ==
    /\ Len(files) = 1
    /\ \E k \in 1..Len(out) :
           /\ out[k].kind = "reachable"
           /\ out[k].text = "http://203.0.113.7:80/files/b%20c"


\* C14: whenever the process has ended, by a return from main or by the
\* exception thrown while the announced URL is built, every resource has
\* been released exactly as often as it was acquired, and at most once.
C14_ReleasedOnEveryExit ==
    pc \in {"exited", "aborted"} => AllReleasedOnce


\* C15: when the installation of a watcher has failed, event_add() has not
\* been called on the absent watcher and the process has not died in the
\* installation loop.
C15_FailedWatcherUntouched ==
    sigFails > 0 => nullAdds = 0 /\ pc # "crashed"


IsWatcher(r) == \E k \in 1..NSIGS : sigs[k] = r

\* the release order is ascending in the ranks rk
InRankOrder(rk) ==
    \A i, j \in 1..Len(relOrder) : i < j => rk[relOrder[i]] <= rk[relOrder[j]]

ClaimedRank ==
    [r \in Resources |->
        IF IsWatcher(r) THEN 1
        ELSE CASE r = "http" -> 2 [] r = "tls" -> 3 [] r = "evb" -> 4]

DestructionRank ==
    [r \in Resources |->
        IF IsWatcher(r) THEN 1
        ELSE CASE r = "tls" -> 2 [] r = "http" -> 3 [] r = "evb" -> 4]

\* C16: after the dispatch has returned the resources are released signal
\* watchers first, then the listener, then the TLS context, the event loop
\* last.
C16_ListenerBeforeTls ==
    (pc = "exited" /\ loopbreaks > 0) => InRankOrder(ClaimedRank)

\* C16, amended: after the dispatch has returned the resources are released
\* signal watchers first, then the TLS context, then the listener, the event
\* loop last; nothing is released after the event loop.
C16_ReverseOfDeclaration ==
    (pc = "exited" /\ loopbreaks > 0) =>
        /\ InRankOrder(DestructionRank)
        /\ relOrder[Len(relOrder)] = "evb"

C16_Witness ==
    /\ pc = "exited"
    /\ loopbreaks > 0
    /\ Len(relOrder) = NSIGS + 3
    /\ \E i \in 1..Len(relOrder) :
           relOrder[i] = "tls" /\ relOrder[i + 1] = "http"


LifecycleRank(l) ==
    CASE l = "INIT" -> 0 [] l = "BOUND" -> 1 [] l = "RUNNING" -> 2
      [] l = "STOPPING" -> 3 [] l = "STOPPED" -> 4

\* C17: every step keeps the lifecycle state or moves it to the next one of
\* INIT, BOUND, RUNNING, STOPPING, STOPPED.  In the dispatch the event loop
\* and the listener exist, the routes are registered and the one bind has
\* succeeded; a loop-break is requested only in RUNNING, and STOPPED is
\* entered only by the return of the dispatch.
C17_LifecycleForward ==
    /\ [][\/ Lifecycle' = Lifecycle
          \/ LifecycleRank(Lifecycle') = LifecycleRank(Lifecycle) + 1]_vars
    /\ [](pc = "dispatch" =>
              /\ evb /\ http /\ listening
              /\ Len(bindCalls) = 1
              /\ gencb /\ indexRoute # NullStr /\ allowed = {"GET", "HEAD"})
    /\ [][loopbreaks' # loopbreaks => Lifecycle = "RUNNING"]_vars
    /\ [][(Lifecycle' = "STOPPED" /\ Lifecycle # "STOPPED") =>
              pc = "dispatch" /\ pc' = "exited"]_vars

C17_Witness ==
    /\ Lifecycle = "STOPPED"
    /\ pc = "exited"
    /\ exitCode = 0
    /\ Len(bindCalls) = 1


\* C18: however many terminating signals are raised, event_base_loopbreak()
\* is called once: each run of term_handler calls it once and at most one
\* run happens.  A step taken in STOPPING runs no handler and leaves the
\* state STOPPING or ends the dispatch, and the process that exits after a
\* loop-break exits with code 0 with every acquired resource released once,
\* whether one signal was raised or several.
C18_ShutdownIdempotent ==
    /\ [](loopbreaks <= 1 /\ Len(handled) = loopbreaks)
    /\ [][Lifecycle = "STOPPING" =>
              /\ handled' = handled
              /\ loopbreaks' = loopbreaks
              /\ out' = out
              /\ Lifecycle' \in {"STOPPING", "STOPPED"}]_vars
    /\ []((pc = "exited" /\ raised >= 1 /\ Lifecycle = "STOPPED") =>
              /\ exitCode = 0
              /\ loopbreaks = 1
              /\ AllReleasedOnce)

C18_Witness ==
    /\ pc = "exited"
    /\ raised = 2
    /\ pending # {}
    /\ Len(handled) = 1
    /\ loopbreaks = 1
    /\ exitCode = 0
    /\ AllReleasedOnce


\* C19: whatever the announcement step does, main goes on to install the
\* signal watchers with the resources, the route table, the bound socket,
\* the configuration and the exit code as they were.
C19_AnnouncerObservational ==
    [][pc = "announce" =>
           /\ pc' = "sigarray"
           /\ UNCHANGED << confVars, resVars, httpVars, exitCode >>]_vars


BindFailed == \E k \in 1..Len(out) : out[k].kind = "fatal" /\ out[k].port # -1

\* C20: evhttp_bind_socket() is called at most once in a run, with bindip
\* and the port chosen before it; when it has failed the process has exited
\* with code 1 without a second call, the dispatch was never entered and no
\* request was handled.  Requests are handled only on a bound listener.
C20_BindOnce ==
    /\ Len(bindCalls) <= 1
    /\ \A k \in 1..Len(bindCalls) : bindCalls[k] = <<bindip, port>>
    /\ BindFailed =>
           /\ pc = "exited"
           /\ exitCode = 1
           /\ ~listening
           /\ Lifecycle = "INIT"
           /\ loopbreaks = 0
           /\ served = <<>>
    /\ served # <<>> => ~BindFailed /\ Len(bindCalls) = 1

C20_Witness ==
    /\ BindFailed
    /\ pc = "exited"
    /\ exitCode = 1
    /\ bindCalls = << <<"0.0.0.0", RandomPort(RANDOM_MAX)>> >>

====
